---- MODULE Spec2Model ----
(***************************************************************************)
(* A model of notifications/models.py: the Notification table, the queryset *)
(* operations unread / read / mark_all_as_read / mark_all_as_unread, the    *)
(* instance method mark_as_read, the rendering method __unicode__ and the   *)
(* signal receiver notify_handler.                                          *)
(*                                                                          *)
(* Python values are written as follows.  A dict (kwargs, a model           *)
(* instance's attributes, a JSON column) is a function from key strings to  *)
(* values.  A unicode string that is interpolated or produced by            *)
(* interpolation is the sequence of its space-separated words, a            *)
(* "%(key)s" word being a conversion specifier.  None is the string "None"  *)
(* for scalar columns; for the columns that hold a dict or a format (data,  *)
(* custom_ctx, custom_str_format) None is written <<>>: the code only ever  *)
(* tests these by truthiness (lines 124, 128), where None and the empty     *)
(* value agree, and line 203 never stores an empty dict.                    *)
(***************************************************************************)
EXTENDS Integers, Sequences, FiniteSets, TLC

VARIABLES
    EXTRA_DATA,   \* the module-level flag set at import time (lines 155-173)
    store,        \* the Notification table: store[id] is the row with primary key id
    entities,     \* the rows of the other tables that still exist
    inst,         \* a Notification instance held in memory by a caller (<<>>: none)
    clock,        \* wall-clock time, in minutes
    last          \* the last call made, its arguments and its outcome

vars == <<EXTRA_DATA, store, entities, inst, clock, last>>

(* ------------------------------ bounds -------------------------------- *)

MaxRows == 3         \* rows the table may hold under Spec
MaxEventRows == 2    \* rows the table may hold under SpecEvent
MaxRenderRows == 1   \* rows the table may hold under SpecRender
MaxClock == 1        \* last value of the clock

(* --------------------------- Python values ---------------------------- *)

None == "None"
Null == <<>>

Truthy(d) == DOMAIN d # {}

pop(kwargs, k) == [x \in DOMAIN kwargs \ {k} |-> kwargs[x]]

get(kwargs, k, default) == IF k \in DOMAIN kwargs THEN kwargs[k] ELSE default

setattr(obj, k, v) == [x \in DOMAIN obj \cup {k} |-> IF x = k THEN v ELSE obj[x]]

(* -------------------- the other tables' objects ----------------------- *)

Users == {"u1", "u2"}

Objects == {"alice", "repo", "issue"}

\* ContentType.objects.get_for_model(obj)
get_for_model(obj) ==
    CASE obj = "alice" -> "auth.user"
      [] obj = "repo"  -> "code.repo"
      [] obj = "issue" -> "code.issue"

\* obj.pk, as the CharField *_object_id stores it
pk(obj) ==
    CASE obj = "alice" -> "7"
      [] obj = "repo"  -> "3"
      [] obj = "issue" -> "70"

\* unicode(obj), the '%s' conversion of a value of the context
unicode(obj) ==
    CASE obj = "alice" -> "alice"
      [] obj = "repo"  -> "mitsuhiko/flask"
      [] obj = "issue" -> "issue 70"
      [] OTHER -> obj

\* the attributes getattr can read from a domain object
Attributes(obj) == IF obj \in Objects THEN {"name"} ELSE {}

getattr(obj, a) ==
    CASE obj = "alice" -> "Alice Liddell"
      [] obj = "repo"  -> "flask"
      [] obj = "issue" -> "#70"

\* GenericForeignKey.__get__: the referenced object, None when the content
\* type is null or the row no longer exists
GenericForeignKey(self, ct_field, fk_field, existing) ==
    IF self[ct_field] = None THEN None
    ELSE LET found == {o \in existing : get_for_model(o) = self[ct_field]
                                        /\ pk(o) = self[fk_field]}
         IN  IF found = {} THEN None ELSE CHOOSE o \in found : TRUE

(* ------------------------- class Notification ------------------------- *)

\* the columns declared in the class body (lines 81-109), with the primary key
BaseFields ==
    {"id", "level", "recipient", "unread",
     "actor_content_type", "actor_object_id", "verb", "description",
     "target_content_type", "target_object_id",
     "action_object_content_type", "action_object_object_id",
     "timestamp", "public", "custom_str_format"}

\* contribute_to_class adds data and custom_ctx only under NOTIFY_USE_JSONFIELD
Fields(extra) == BaseFields \cup (IF extra THEN {"data", "custom_ctx"} ELSE {})

\* mutant of Default: the unread column declared with default=False
Default_unread_false(f, now) ==
    CASE f = "level"     -> "info"
      [] f = "unread"    -> FALSE
      [] f = "public"    -> TRUE
      [] f = "timestamp" -> now
      [] f \in {"custom_str_format", "data", "custom_ctx"} -> Null
      [] OTHER -> None

Default(f, now) ==
    CASE f = "level"     -> "info"
      [] f = "unread"    -> TRUE
      [] f = "public"    -> TRUE
      [] f = "timestamp" -> now
      [] f \in {"custom_str_format", "data", "custom_ctx"} -> Null
      [] OTHER -> None

Ok(v) == [raised |-> None, value |-> v]

Raise(e) == [raised |-> e, value |-> Null]

\* Notification(**kwargs): Model.__init__ rejects a keyword that names no field
\* with a TypeError; a field not passed takes its default.  The instance is
\* not saved yet and has no id.
Notification(kwargs, extra, now) ==
    IF ~(DOMAIN kwargs \subseteq Fields(extra))
    THEN Raise("TypeError")
    ELSE Ok([f \in Fields(extra) \ {"id"} |->
                IF f \in DOMAIN kwargs THEN kwargs[f] ELSE Default(f, now)])

\* the row Model.save writes: the instance's fields, not its other attributes
Row(self, extra) == [f \in (DOMAIN self \cap Fields(extra)) \ {"id"} |-> self[f]]

\* Model.save: UPDATE of the row with the instance's primary key, INSERT of a
\* new row when the instance has none
save(self, st, extra) ==
    IF "id" \in DOMAIN self
    THEN [st EXCEPT ![self["id"]] = Row(self, extra)]
    ELSE Append(st, Row(self, extra))

\* Notification.objects.get(id=id): an instance with the row's current values
Instance(st, id) == setattr(st[id], "id", id)

(* ---------------------- class NotificationQuerySet -------------------- *)

\* A queryset is lazy: it is the sequence of its filters, evaluated against
\* the table by the statement that finally runs.
all == <<>>

filter(qs, field, value) == Append(qs, <<field, value>>)

Rows(qs, st) ==
    {id \in DOMAIN st : \A i \in DOMAIN qs : st[id][qs[i][1]] = qs[i][2]}

\* mutant of update: a loop over the rows that stops after the first one
update_first_row(qs, st, field, value) ==
    [id \in DOMAIN st |->
        IF id \in Rows(qs, st) /\ (\A j \in Rows(qs, st) : id <= j)
        THEN [st[id] EXCEPT ![field] = value] ELSE st[id]]

\* mutant of update: a loop over the rows that misses the last one of several
update_skip_last(qs, st, field, value) ==
    [id \in DOMAIN st |->
        IF id \in Rows(qs, st) /\ (\E j \in Rows(qs, st) : id < j \/ Rows(qs, st) = {id})
        THEN [st[id] EXCEPT ![field] = value] ELSE st[id]]

\* QuerySet.update: one UPDATE statement over the rows the filters match
update(qs, st, field, value) ==
    [id \in DOMAIN st |->
        IF id \in Rows(qs, st) THEN [st[id] EXCEPT ![field] = value] ELSE st[id]]

unread(self) == filter(self, "unread", TRUE)

read(self) == filter(self, "unread", FALSE)

\* mutant of mark_all_as_read_qs: the recipient argument is not applied
mark_all_as_read_qs_any_recipient(self, recipient) == unread(self)

\* the queryset mark_all_as_read updates
mark_all_as_read_qs(self, recipient) ==
    LET qs == unread(self)
    IN  IF recipient # None THEN filter(qs, "recipient", recipient) ELSE qs

mark_all_as_read(self, recipient, st) ==
    update(mark_all_as_read_qs(self, recipient), st, "unread", FALSE)

\* the queryset mark_all_as_unread updates
mark_all_as_unread_qs(self, recipient) ==
    LET qs == read(self)
    IN  IF recipient # None THEN filter(qs, "recipient", recipient) ELSE qs

mark_all_as_unread(self, recipient, st) ==
    update(mark_all_as_unread_qs(self, recipient), st, "unread", TRUE)

(* ------------------------ Notification methods ------------------------ *)

\* mark_as_read: tests the instance's own flag; the result is the instance
\* and the table afterwards
mark_as_read(self, st, extra) ==
    IF self["unread"]
    THEN LET s2 == setattr(self, "unread", FALSE)
         IN  [self |-> s2, st |-> save(s2, st, extra), saved |-> TRUE]
    ELSE [self |-> self, st |-> st, saved |-> FALSE]

\* django.utils.timesince.timesince(self.timestamp, None), in whole minutes
timesince(timestamp, now) ==
    IF now - timestamp <= 0 THEN "0 minutes"
    ELSE IF now - timestamp = 1 THEN "1 minute"
    ELSE ToString(now - timestamp) \o " minutes"

\* the conversion specifiers of a format and the key each one names
Specifiers ==
    {"%(actor)s", "%(verb)s", "%(action_object)s", "%(target)s", "%(timesince)s"}

KeyOf(w) ==
    CASE w = "%(actor)s"         -> "actor"
      [] w = "%(verb)s"          -> "verb"
      [] w = "%(action_object)s" -> "action_object"
      [] w = "%(target)s"        -> "target"
      [] w = "%(timesince)s"     -> "timesince"

\* format % ctx
Interpolate(format, ctx) ==
    [i \in DOMAIN format |->
        IF format[i] \in Specifiers THEN unicode(ctx[KeyOf(format[i])])
        ELSE format[i]]

FormatActionObjectOnTarget ==
    <<"%(actor)s", "%(verb)s", "%(action_object)s", "on", "%(target)s",
      "%(timesince)s", "ago">>

FormatTarget == <<"%(actor)s", "%(verb)s", "%(target)s", "%(timesince)s", "ago">>

FormatActionObject ==
    <<"%(actor)s", "%(verb)s", "%(action_object)s", "%(timesince)s", "ago">>

FormatPlain == <<"%(actor)s", "%(verb)s", "%(timesince)s", "ago">>

\* the context __unicode__ builds before custom_ctx is applied
Context(self, existing, now) ==
    [actor         |-> GenericForeignKey(self, "actor_content_type",
                                         "actor_object_id", existing),
     verb          |-> self["verb"],
     action_object |-> GenericForeignKey(self, "action_object_content_type",
                                         "action_object_object_id", existing),
     target        |-> GenericForeignKey(self, "target_content_type",
                                         "target_object_id", existing),
     timesince     |-> timesince(self["timestamp"], now)]

\* the keys of custom_ctx whose getattr raises AttributeError
BadKeys(ctx, custom_ctx) ==
    {c \in DOMAIN custom_ctx \cap DOMAIN ctx : custom_ctx[c] \notin Attributes(ctx[c])}

\* the context after the loop of lines 125-127
Bypass(ctx, custom_ctx) ==
    [c \in DOMAIN ctx |->
        IF c \in DOMAIN custom_ctx THEN getattr(ctx[c], custom_ctx[c]) ELSE ctx[c]]

\* the format the tests of lines 128-136 choose
ChooseFormat(self, ctx0) ==
    IF Truthy(self["custom_str_format"]) THEN self["custom_str_format"]
    ELSE IF ctx0["target"] # None
         THEN IF ctx0["action_object"] # None
              THEN FormatActionObjectOnTarget
              ELSE FormatTarget
    ELSE IF ctx0["action_object"] # None THEN FormatActionObject
    ELSE FormatPlain

\* Notification.__unicode__
__unicode__(self, existing, now) ==
    IF "custom_ctx" \notin DOMAIN self THEN Raise("AttributeError")
    ELSE LET ctx0 == Context(self, existing, now)
             cc   == self["custom_ctx"]
         IN  IF Truthy(cc) /\ BadKeys(ctx0, cc) # {}
             THEN Raise("AttributeError")
             ELSE Ok(Interpolate(ChooseFormat(self, ctx0),
                                 IF Truthy(cc) THEN Bypass(ctx0, cc) ELSE ctx0))

(* --------------------------- notify_handler --------------------------- *)

\* mutant of SetReference: the content type of the reference is not set
SetReference_id_only(newnotify, opt, obj) ==
    IF obj # None
    THEN setattr(newnotify, opt \o "_object_id", pk(obj))
    ELSE newnotify

\* lines 198-202 for one opt: both columns of the reference are set when the
\* object is not None, none otherwise
SetReference(newnotify, opt, obj) ==
    IF obj # None
    THEN setattr(setattr(newnotify, opt \o "_object_id", pk(obj)),
                 opt \o "_content_type", get_for_model(obj))
    ELSE newnotify

\* lines 203-204
SetData(newnotify, kwargs, extra) ==
    IF Cardinality(DOMAIN kwargs) # 0 /\ extra
    THEN setattr(newnotify, "data", kwargs)
    ELSE newnotify

\* the keyword arguments of the constructor call of lines 186-196
ConstructorArguments(recipient, actor, verb, kwargs, now) ==
    [recipient          |-> recipient,
     actor_content_type |-> get_for_model(actor),
     actor_object_id    |-> pk(actor),
     verb               |-> unicode(verb),
     public             |-> get(kwargs, "public", TRUE),
     description        |-> get(kwargs, "description", None),
     timestamp          |-> get(kwargs, "timestamp", now),
     custom_ctx         |-> get(kwargs, "custom_ctx", Null),
     custom_str_format  |-> get(kwargs, "custom_str_format", Null)]

Popped ==
    {"verb", "signal", "recipient", "sender", "custom_ctx", "custom_str_format",
     "public", "description", "timestamp", "target", "action_object"}

\* what is left of kwargs at line 203
Remaining(event) == [k \in DOMAIN event \ Popped |-> event[k]]

\* mutant of Binding: sender popped with a default of None, so that the
\* content type lookup of line 188 fails on None
Binding_sender_defaulted(event) ==
    IF "verb" \notin DOMAIN event THEN "TypeError"
    ELSE IF "recipient" \notin DOMAIN event THEN "KeyError"
    ELSE IF "sender" \notin DOMAIN event THEN "AttributeError"
    ELSE None

\* the exception raised before the constructor call: verb is a required
\* parameter of the function, and recipient and sender are popped from kwargs
\* without a default (lines 182-183)
Binding(event) ==
    IF "verb" \notin DOMAIN event THEN "TypeError"
    ELSE IF "recipient" \notin DOMAIN event THEN "KeyError"
    ELSE IF "sender" \notin DOMAIN event THEN "KeyError"
    ELSE None

\* notify_handler(verb, **kwargs) called with the keywords of event: the
\* exception raised (None when it returns) and the table afterwards
notify_handler(event, st, extra, now) ==
    IF Binding(event) # None
    THEN [raised |-> Binding(event), st |-> st]
    ELSE LET newnotify ==
                 Notification(ConstructorArguments(event["recipient"], event["sender"],
                                                   event["verb"], event, now),
                              extra, now)
         IN  IF newnotify.raised # None
             THEN [raised |-> newnotify.raised, st |-> st]
             ELSE LET n1 == SetReference(newnotify.value, "target",
                                         get(event, "target", None))
                      n2 == SetReference(n1, "action_object",
                                         get(event, "action_object", None))
                      n3 == SetData(n2, Remaining(event), extra)
                  IN  [raised |-> None, st |-> save(n3, st, extra)]

(* ------------------------------- inputs ------------------------------- *)

TheVerb == "closed"

CustomFormat == <<"%(actor)s", "did", "%(verb)s">>

\* a well-formed activity event, as notify.send passes it to its receivers
Event(recipient, target, action_object, format, custom_ctx, extras) ==
    LET base == [verb |-> TheVerb, signal |-> "notify", sender |-> "alice",
                 recipient |-> recipient]
        e1 == IF target # None THEN setattr(base, "target", target) ELSE base
        e2 == IF action_object # None THEN setattr(e1, "action_object", action_object)
              ELSE e1
        e3 == IF Truthy(format) THEN setattr(e2, "custom_str_format", format) ELSE e2
        e4 == IF Truthy(custom_ctx) THEN setattr(e3, "custom_ctx", custom_ctx) ELSE e3
    IN  [k \in DOMAIN e4 \cup DOMAIN extras |->
            IF k \in DOMAIN extras THEN extras[k] ELSE e4[k]]

\* the events of Spec: they differ in the recipient only
StoreEvents == {Event(u, None, None, Null, Null, <<>>) : u \in Users}

CustomContexts == {Null, [target |-> "name"], [actor |-> "name"]}

Extras == {<<>>, [level |-> "warning"]}

WellFormedEvents ==
    {Event("u1", t, a, f, c, x) :
        t \in {None, "repo"}, a \in {None, "issue"}, f \in {Null, CustomFormat},
        c \in CustomContexts, x \in Extras}

\* the events of SpecRender
RenderEvents == WellFormedEvents

\* events that lack one of the required keywords
Lacking(k) == {pop(e, k) : e \in {Event("u1", None, None, Null, Null, x) : x \in Extras}}

\* the events of SpecEvent: with and without each optional object and extra
\* pair, one with every optional keyword, and the events that lack a keyword
IngestEvents ==
    {Event("u1", t, a, Null, Null, x) :
        t \in {None, "repo"}, a \in {None, "issue"}, x \in Extras}
    \cup {Event("u2", "repo", "issue", CustomFormat, [actor |-> "name"],
                [level |-> "warning"])}
    \cup Lacking("verb") \cup Lacking("recipient") \cup Lacking("sender")

\* the querysets the bulk calls and queries are made on: the manager, a
\* user's notifications (the related manager of line 83), and the manager
\* filtered by read state
Scopes == {all, filter(all, "recipient", "u1"), unread(all), read(all)}

(* ------------------------------ actions ------------------------------- *)

NoInstance == <<>>

NoCall ==
    [op |-> "none", raised |-> None, kwargs |-> <<>>, id |-> 0, self |-> all,
     recipient |-> None, rows |-> {}, out |-> <<>>, saved |-> FALSE]

Init ==
    /\ EXTRA_DATA \in BOOLEAN
    /\ store = <<>>
    /\ entities = Objects
    /\ inst = NoInstance
    /\ clock = 0
    /\ last = NoCall

\* an activity signal reaches notify_handler; the table is kept to max rows
Notify(event, max) ==
    /\ LET r == notify_handler(event, store, EXTRA_DATA, clock)
       IN  /\ Len(r.st) <= max
           /\ store' = r.st
           /\ last' = [NoCall EXCEPT !.op = "notify_handler", !.kwargs = event,
                                     !.raised = r.raised]
    /\ UNCHANGED <<EXTRA_DATA, entities, inst, clock>>

\* a caller loads a notification into memory
Get(id) ==
    /\ id \in DOMAIN store
    /\ inst' = Instance(store, id)
    /\ last' = [NoCall EXCEPT !.op = "get", !.id = id]
    /\ UNCHANGED <<EXTRA_DATA, store, entities, clock>>

\* the caller calls mark_as_read() on the instance it holds
MarkAsRead ==
    /\ inst # NoInstance
    /\ LET r == mark_as_read(inst, store, EXTRA_DATA)
       IN  /\ inst' = r.self
           /\ store' = r.st
           /\ last' = [NoCall EXCEPT !.op = "mark_as_read", !.id = inst["id"],
                                     !.saved = r.saved]
    /\ UNCHANGED <<EXTRA_DATA, entities, clock>>

MarkAllAsRead(self, recipient) ==
    /\ store' = mark_all_as_read(self, recipient, store)
    /\ last' = [NoCall EXCEPT !.op = "mark_all_as_read", !.self = self,
                              !.recipient = recipient,
                              !.rows = Rows(mark_all_as_read_qs(self, recipient), store)]
    /\ UNCHANGED <<EXTRA_DATA, entities, inst, clock>>

MarkAllAsUnread(self, recipient) ==
    /\ store' = mark_all_as_unread(self, recipient, store)
    /\ last' = [NoCall EXCEPT !.op = "mark_all_as_unread", !.self = self,
                              !.recipient = recipient,
                              !.rows = Rows(mark_all_as_unread_qs(self, recipient), store)]
    /\ UNCHANGED <<EXTRA_DATA, entities, inst, clock>>

\* the queries unread() and read(), evaluated
QueryUnread(self) ==
    /\ last' = [NoCall EXCEPT !.op = "unread", !.self = self,
                              !.rows = Rows(unread(self), store)]
    /\ UNCHANGED <<EXTRA_DATA, store, entities, inst, clock>>

QueryRead(self) ==
    /\ last' = [NoCall EXCEPT !.op = "read", !.self = self,
                              !.rows = Rows(read(self), store)]
    /\ UNCHANGED <<EXTRA_DATA, store, entities, inst, clock>>

\* a stored notification is loaded and rendered
Render(id) ==
    /\ id \in DOMAIN store
    /\ LET r == __unicode__(Instance(store, id), entities, clock)
       IN  last' = [NoCall EXCEPT !.op = "__unicode__", !.id = id,
                                  !.raised = r.raised, !.out = r.value]
    /\ UNCHANGED <<EXTRA_DATA, store, entities, inst, clock>>

\* a row another table holds is deleted
Delete(obj) ==
    /\ obj \in entities
    /\ entities' = entities \ {obj}
    /\ last' = NoCall
    /\ UNCHANGED <<EXTRA_DATA, store, inst, clock>>

Tick ==
    /\ clock < MaxClock
    /\ clock' = clock + 1
    /\ last' = NoCall
    /\ UNCHANGED <<EXTRA_DATA, store, entities, inst>>

Next ==
    \/ \E e \in StoreEvents : Notify(e, MaxRows)
    \/ \E id \in 1..MaxRows : Get(id)
    \/ MarkAsRead
    \/ \E s \in Scopes, r \in Users \cup {None} : MarkAllAsRead(s, r)
    \/ \E s \in Scopes, r \in Users \cup {None} : MarkAllAsUnread(s, r)
    \/ \E s \in Scopes : QueryUnread(s)
    \/ \E s \in Scopes : QueryRead(s)
    \/ \E id \in 1..MaxRows : Render(id)

Spec == Init /\ [][Next]_vars

NextEvent ==
    \/ \E e \in IngestEvents : Notify(e, MaxEventRows)
    \/ MarkAllAsRead(all, None)
    \/ MarkAllAsUnread(all, None)

SpecEvent == Init /\ [][NextEvent]_vars

NextRender ==
    \/ \E e \in RenderEvents : Notify(e, MaxRenderRows)
    \/ \E id \in 1..MaxRenderRows : Render(id)
    \/ \E o \in Objects : Delete(o)
    \/ Tick

SpecRender == Init /\ [][NextRender]_vars

(* ------------------- the read state of the table (Spec) ---------------- *)

BulkOps == {"mark_all_as_read", "mark_all_as_unread"}

\* C1: every row is inserted by notify_handler with unread = TRUE, and a
\* stored unread flag goes from TRUE to FALSE only in a step that is
\* mark_as_read on that notification or mark_all_as_read on a scope holding it.
C1_UnreadUntilMarked ==
    [][/\ \A id \in DOMAIN store' \ DOMAIN store :
              /\ last'.op = "notify_handler"
              /\ store'[id]["unread"] = TRUE
       /\ \A id \in DOMAIN store \cap DOMAIN store' :
              (store[id]["unread"] /\ ~store'[id]["unread"]) =>
                  \/ last'.op = "mark_as_read" /\ last'.id = id
                  \/ last'.op = "mark_all_as_read" /\ id \in Rows(last'.self, store)
      ]_vars

\* a mark_as_read wrote one row while another row is still unread
C1_Witness ==
    /\ last.op = "mark_as_read"
    /\ last.saved
    /\ ~store[last.id]["unread"]
    /\ \E id \in DOMAIN store : store[id]["unread"]

\* the rows a bulk call with this scope and recipient is to change
Matched(st, self, recipient, flag) ==
    {id \in DOMAIN st :
        /\ id \in Rows(self, st)
        /\ st[id]["unread"] = flag
        /\ (recipient # None => st[id]["recipient"] = recipient)}

\* C2: mark_all_as_read(scope, recipient=R) sets unread = FALSE on exactly the
\* unread rows of the scope whose recipient is R, mark_all_as_unread sets
\* unread = TRUE on exactly the read ones; every other row and every other
\* field keeps its value and no row is inserted or deleted.
C2_BulkFrame ==
    [][last'.op \in BulkOps =>
          LET flag == (last'.op = "mark_all_as_read")
          IN  /\ DOMAIN store' = DOMAIN store
              /\ \A id \in DOMAIN store :
                     store'[id] =
                         IF id \in Matched(store, last'.self, last'.recipient, flag)
                         THEN [store[id] EXCEPT !["unread"] = ~flag]
                         ELSE store[id]
      ]_vars

\* a call for one recipient changed rows and left another recipient's unread
C2_Witness ==
    /\ last.op = "mark_all_as_read"
    /\ last.recipient \in Users
    /\ last.rows # {}
    /\ \E id \in DOMAIN store :
           store[id]["recipient"] # last.recipient /\ store[id]["unread"]

\* C3: mark_all_as_read is idempotent: the same call made again right after
\* the first changes no row.
C3_Idempotent ==
    last.op = "mark_all_as_read" =>
        mark_all_as_read(last.self, last.recipient, store) = store

\* the first call changed two rows or more
C3_Witness ==
    /\ last.op = "mark_all_as_read"
    /\ Cardinality(last.rows) >= 2
    /\ \A id \in last.rows : ~store[id]["unread"]

\* C4: a bulk operation is never seen partially applied: in the state it
\* leaves, under any interleaving with inserts, loads and mark_as_read calls,
\* every row its filters matched has the new value.
C4_BulkNeverPartial ==
    last.op \in BulkOps =>
        \A id \in last.rows : store[id]["unread"] = (last.op = "mark_all_as_unread")

\* a bulk mark_all_as_unread flipped several rows while an instance is held
C4_Witness ==
    /\ last.op = "mark_all_as_unread"
    /\ Cardinality(last.rows) >= 2
    /\ inst # NoInstance
    /\ \A id \in last.rows : store[id]["unread"]

\* C10: once mark_as_read() on an instance returns, the stored row of that
\* notification is read, and a call on a row that was already read writes
\* nothing.
C10_MarkAsReadEnsuresRead ==
    [][last'.op = "mark_as_read" =>
          /\ ~store'[last'.id]["unread"]
          /\ (~store[last'.id]["unread"] => ~last'.saved)
      ]_vars

(* ------------- ingestion (SpecEvent), rendering (SpecRender) ----------- *)

Required == {"sender", "recipient", "verb"}

\* the fields section 4.3 of the specification recognizes in an event
Recognized ==
    Required \cup {"signal", "target", "action_object", "description", "public",
                   "timestamp", "custom_ctx", "custom_str_format"}

\* C5: a notify_handler call that carries sender, recipient and verb inserts
\* exactly one row under both settings of the flag; with extended data
\* enabled and pairs left over, data is exactly those pairs; with it
\* disabled the pairs are dropped and the row is still inserted.
C5_OneRowPerEvent ==
    [][(last'.op = "notify_handler" /\ Required \subseteq DOMAIN last'.kwargs) =>
          LET rest == [k \in DOMAIN last'.kwargs \ Recognized |-> last'.kwargs[k]]
          IN  /\ last'.raised = None
              /\ Len(store') = Len(store) + 1
              /\ SubSeq(store', 1, Len(store)) = store
              /\ (EXTRA_DATA /\ rest # <<>>) => store'[Len(store')]["data"] = rest
      ]_vars

Lacks(event) == ~(Required \subseteq DOMAIN event)

\* C6 as stated: an event that lacks sender, recipient or verb makes
\* notify_handler raise ImproperlyConfigured (the configuration error of
\* line 6) and no row is inserted.
C6_ConfigurationError ==
    (last.op = "notify_handler" /\ Lacks(last.kwargs)) => last.raised = "ImproperlyConfigured"

\* C6 as amended: an event that lacks verb makes notify_handler raise
\* TypeError, one that has verb and lacks recipient or sender makes it raise
\* KeyError; the exception reaches the caller and the table is unchanged.
C6_RaisesAndKeepsStore ==
    [][(last'.op = "notify_handler" /\ Lacks(last'.kwargs)) =>
          /\ last'.raised =
                 IF "verb" \notin DOMAIN last'.kwargs THEN "TypeError" ELSE "KeyError"
          /\ store' = store
      ]_vars

\* a call without sender raised KeyError with a row already in the table
C6_Witness ==
    /\ last.op = "notify_handler"
    /\ "sender" \notin DOMAIN last.kwargs
    /\ last.raised = "KeyError"
    /\ Len(store) >= 1

\* a reference is populated when both of its columns are, null when neither is
Populated(row, opt) ==
    row[opt \o "_content_type"] # None /\ row[opt \o "_object_id"] # None

Empty(row, opt) ==
    row[opt \o "_content_type"] = None /\ row[opt \o "_object_id"] = None

\* C8: in every stored row the actor reference has type and id, target and
\* action_object each have both or neither, and a row inserted for an event has
\* a target exactly when the event supplied one, and likewise an action_object.
C8_References ==
    [][/\ \A id \in DOMAIN store' :
              /\ Populated(store'[id], "actor")
              /\ \A opt \in {"target", "action_object"} :
                     Populated(store'[id], opt) \/ Empty(store'[id], opt)
       /\ Len(store') = Len(store) + 1 =>
              \A opt \in {"target", "action_object"} :
                  Populated(store'[Len(store')], opt) <=> opt \in DOMAIN last'.kwargs
      ]_vars

\* a row with a target and no action_object
C8_Witness ==
    \E id \in DOMAIN store :
        /\ Populated(store[id], "target")
        /\ Empty(store[id], "action_object")
        /\ last.op = "notify_handler"
        /\ "target" \in DOMAIN last.kwargs

\* the format the rules of C7 choose from what the row stores
ClaimedFormat(row) ==
    IF Truthy(row["custom_str_format"]) THEN row["custom_str_format"]
    ELSE IF Populated(row, "target") /\ Populated(row, "action_object")
         THEN <<"%(actor)s", "%(verb)s", "%(action_object)s", "on", "%(target)s",
                "%(timesince)s", "ago">>
    ELSE IF Populated(row, "target")
         THEN <<"%(actor)s", "%(verb)s", "%(target)s", "%(timesince)s", "ago">>
    ELSE IF Populated(row, "action_object")
         THEN <<"%(actor)s", "%(verb)s", "%(action_object)s", "%(timesince)s", "ago">>
    ELSE <<"%(actor)s", "%(verb)s", "%(timesince)s", "ago">>

\* C7: rendering a stored notification returns a string, made from the
\* format that the first matching rule chooses from custom_str_format, target
\* and action_object: the words of that format, each conversion specifier
\* replaced by a value.
C7_RendersByFirstRule ==
    last.op = "__unicode__" =>
        /\ last.raised = None
        /\ LET format == ClaimedFormat(store[last.id])
           IN  /\ Len(last.out) = Len(format)
               /\ \A i \in DOMAIN format :
                      format[i] \notin Specifiers => last.out[i] = format[i]

\* the references of a row whose object no longer exists
Dangling(row, existing) ==
    {opt \in {"actor", "target", "action_object"} :
        /\ Populated(row, opt)
        /\ ~\E o \in existing : /\ get_for_model(o) = row[opt \o "_content_type"]
                                /\ pk(o) = row[opt \o "_object_id"]}

\* C9: rendering a notification whose actor, target or action_object has
\* been deleted never raises, whether or not custom_ctx names the deleted
\* reference.
C9_DeletedReferenceRenders ==
    (/\ last.op = "__unicode__"
     /\ Dangling(store[last.id], entities) # {}
     /\ \A c \in DOMAIN store[last.id]["custom_ctx"] : Populated(store[last.id], c))
        => last.raised = None

====
